---- MODULE Spec2Model ----
(***************************************************************************)
(* The coin economic engine of the growth-bank backend: the coin ledger    *)
(* (CoinCalculationEngine.recordCoinTransaction / getCurrentBalance), the  *)
(* reward calculator (CoinCalculationEngine.calculateCoins), their callers *)
(* (CoinService, AchievementService, LearningSessionModel, UserModel) and  *)
(* the decay rule engine (CoinDecayService).                               *)
(*                                                                         *)
(* Every `await` on the store is a separate step of the calling request,   *)
(* so requests interleave exactly where the Node event loop lets them.     *)
(* Dates are day numbers; day 0 is a Monday.                               *)
(***************************************************************************)
EXTENDS Integers, Sequences, FiniteSets, TLC

\* ------------------------------------------------------------------ bounds
NumUsers == 2
NumProcs == 2
MaxLedger == 3
MaxSessions == 2
MaxCalcSessions == 3
MaxJumps == 1

Users == 1..NumUsers
Procs == 1..NumProcs

\* amounts an administrator adjusts by, costs of rewards
AdjustAmounts == {-1, 2}
RewardCosts == {1}
\* how far the clock is moved in one step
DayJumps == {1, 45}

\* ---------------------------------------------------------------- catalog
\* task_definitions (subject, task_type, base_coin, is_active); task 3 is inactive
TaskDefinitions ==
  <<[subject |-> "math", task_type |-> "practice", base_coin |-> 2, is_active |-> TRUE],
    [subject |-> "english", task_type |-> "reading", base_coin |-> 5, is_active |-> TRUE],
    [subject |-> "math", task_type |-> "reading", base_coin |-> 1, is_active |-> FALSE]>>

\* difficulties (label, coefficient in hundredths: decimal(4,2), is_active);
\* "hard" and "extreme" stand for the labels '困难' and '极难'; row 4 is a
\* difficulty of coefficient 0.29, row 5 an inactive one
Difficulties ==
  <<[label |-> "normal", coefficient |-> 100, is_active |-> TRUE],
    [label |-> "hard", coefficient |-> 150, is_active |-> TRUE],
    [label |-> "extreme", coefficient |-> 200, is_active |-> TRUE],
    [label |-> "light", coefficient |-> 29, is_active |-> TRUE],
    [label |-> "easy", coefficient |-> 80, is_active |-> FALSE]>>

\* achievements (points); whether a user meets an achievement's
\* condition_expression is left open
Achievements == <<[points |-> 1]>>

VARIABLES
  users,        \* rows of table users (ids)
  lastLogin,    \* users.last_login_at, a day
  ledger,       \* rows of table coin_ledger, in creation (created_at) order
  sessions,     \* rows of table learning_sessions
  nextSession,  \* session ids handed out so far (uuidv4 never repeats)
  achieved,     \* rows of table user_achievements: <<user, achievement>>
  rules,        \* rows of table coin_decay_rules
  today,        \* the current day
  jumps,        \* how often the clock was moved
  errorLog,     \* the users of the console.error lines of the last decay cycle
  pc,           \* pc[p]: where request p stands
  rct,          \* rct[p]: the frame of p's recordCoinTransaction call
  ses,          \* ses[p]: the frame of p's LearningSessionModel.create call
  dec,          \* dec[p]: the frame of p's decay cycle
  prd,          \* prd[p]: the frame of p's predictDecay call
  lastPredict,  \* the arguments, the rows read and the result of the last predictDecay
  preview,      \* the input and the response of the last previewCalculation
  scheduler     \* CoinDecayService.isSchedulerRunning and the cron jobs registered

vars == <<users, lastLogin, ledger, sessions, nextSession, achieved, rules, today,
          jumps, errorLog, pc, rct, ses, dec, prd, lastPredict, preview, scheduler>>

\* what an action of the ledger's callers leaves alone
restOfLedger ==
  <<users, lastLogin, sessions, nextSession, rules, today, jumps, errorLog, ses, dec, prd,
    lastPredict, preview, scheduler>>

\* ------------------------------------------------------------ ledger store
NoRef == <<"none", 0>>
NoRule == 0

NoFrame ==
  [userId |-> 0, amount |-> 0, changeType |-> "none", sourceType |-> "none",
   referenceId |-> NoRef, rule_id |-> NoRule, original_coins |-> 0,
   currentBalance |-> 0, ret |-> "idle", err |-> "idle"]

UserEntries(l, u) == SelectSeq(l, LAMBDA e : e.user_id = u)

getCurrentBalance_anyone(l, u) ==
  IF Len(l) = 0 THEN 0 ELSE l[Len(l)].balance_after

\* .where('user_id', userId).orderBy('created_at', 'desc').first(); || 0
getCurrentBalance(l, u) ==
  LET es == UserEntries(l, u)
  IN IF Len(es) = 0 THEN 0 ELSE es[Len(es)].balance_after

NewBalance_lost(currentBalance, amount) == amount

\* const newBalance = currentBalance + amount
NewBalance(currentBalance, amount) == currentBalance + amount

LedgerRow_firstUser(f) ==
  [user_id |-> 1, change_type |-> f.changeType, amount |-> f.amount,
   balance_after |-> NewBalance(f.currentBalance, f.amount),
   source_type |-> f.sourceType, reference_id |-> f.referenceId,
   rule_id |-> f.rule_id, original_coins |-> f.original_coins]

\* the inserted row; metadata keeps rule_id and original_coins of a decay
LedgerRow(f) ==
  [user_id |-> f.userId, change_type |-> f.changeType, amount |-> f.amount,
   balance_after |-> NewBalance(f.currentBalance, f.amount),
   source_type |-> f.sourceType, reference_id |-> f.referenceId,
   rule_id |-> f.rule_id, original_coins |-> f.original_coins]

\* a call of recordCoinTransaction(userId, amount, changeType, sourceType,
\* referenceId, description, metadata): the caller continues at `ret` when it
\* returns and at `err` when it rejects
CallRct(p, u, amt, kind, src, ref, rule, orig, ret, err) ==
  /\ rct' = [rct EXCEPT ![p] =
       [userId |-> u, amount |-> amt, changeType |-> kind, sourceType |-> src,
        referenceId |-> ref, rule_id |-> rule, original_coins |-> orig,
        currentBalance |-> 0, ret |-> ret, err |-> err]]
  /\ pc' = [pc EXCEPT ![p] = "rct_balance"]

\* const currentBalance = await this.getCurrentBalance(userId)
RctGetBalance(p) ==
  /\ pc[p] = "rct_balance"
  /\ rct' = [rct EXCEPT ![p].currentBalance = getCurrentBalance(ledger, rct[p].userId)]
  /\ pc' = [pc EXCEPT ![p] = "rct_insert"]
  /\ UNCHANGED <<ledger, achieved, restOfLedger>>

\* await db('coin_ledger').insert({...}); user_id references users, so the
\* insert rejects once the user row is gone
RctInsert(p) ==
  /\ pc[p] = "rct_insert"
  /\ IF rct[p].userId \in users
       THEN /\ ledger' = Append(ledger, LedgerRow(rct[p]))
            /\ pc' = [pc EXCEPT ![p] = rct[p].ret]
       ELSE /\ ledger' = ledger
            /\ pc' = [pc EXCEPT ![p] = rct[p].err]
  /\ rct' = [rct EXCEPT ![p] = NoFrame]
  /\ UNCHANGED <<achieved, restOfLedger>>

\* the store fails the insert (connection lost, constraint, timeout)
RctInsertFails(p) ==
  /\ pc[p] = "rct_insert"
  /\ pc' = [pc EXCEPT ![p] = rct[p].err]
  /\ rct' = [rct EXCEPT ![p] = NoFrame]
  /\ UNCHANGED <<ledger, achieved, restOfLedger>>

\* single-writer-per-user discipline: no other append for the same user is
\* between its balance read and its insert
NoOtherWriter(p) ==
  \A q \in Procs \ {p} : ~(pc[q] = "rct_insert" /\ rct[q].userId = rct[p].userId)

RctGetBalanceSerial(p) == NoOtherWriter(p) /\ RctGetBalance(p)

\* ------------------------------------------------------------- CoinService
\* a request starts only while the ledger it may append to has room
InFlight == Cardinality({q \in Procs : pc[q] # "idle"})
CanStart(p) == pc[p] = "idle" /\ Len(ledger) + InFlight < MaxLedger

\* CoinService.adjustCoins(userId, amount, reason, adminId)
AdjustCoins(p, u, amt) ==
  /\ CanStart(p)
  /\ CallRct(p, u, amt, IF amt > 0 THEN "bonus" ELSE "penalty",
             "admin_adjustment", <<"admin", 1>>, NoRule, 0, "idle", "idle")
  /\ UNCHANGED <<ledger, achieved, restOfLedger>>

\* CoinService.redeemReward(userId, rewardId, coinsCost, description)
RedeemReward(p, u, cost) ==
  /\ CanStart(p)
  /\ IF getCurrentBalance(ledger, u) < cost
       THEN UNCHANGED <<pc, rct>>   \* throw new Error('Insufficient coin balance')
       ELSE CallRct(p, u, 0 - cost, "redeemed", "reward", <<"reward", 1>>, NoRule, 0,
                    "idle", "idle")
  /\ UNCHANGED <<ledger, achieved, restOfLedger>>

\* AchievementService.awardAchievement(userId, achievement): the
\* user_achievements row, then a bonus when achievement.points > 0
AwardAchievement(p, u, a) ==
  /\ CanStart(p)
  /\ u \in users
  /\ <<u, a>> \notin achieved
  /\ achieved' = achieved \cup {<<u, a>>}
  /\ IF Achievements[a].points > 0
       THEN CallRct(p, u, Achievements[a].points, "bonus", "achievement",
                    <<"achievement", a>>, NoRule, 0, "idle", "idle")
       ELSE UNCHANGED <<pc, rct>>
  /\ UNCHANGED <<ledger, restOfLedger>>

\* UserModel.delete(userId); coin_ledger, learning_sessions and
\* user_achievements reference users ON DELETE CASCADE
DeleteUser(u) ==
  /\ u \in users
  /\ users' = users \ {u}
  /\ ledger' = SelectSeq(ledger, LAMBDA e : e.user_id # u)
  /\ sessions' = {s \in sessions : s.user_id # u}
  /\ achieved' = {x \in achieved : x[1] # u}
  /\ UNCHANGED <<lastLogin, nextSession, rules, today, jumps, errorLog, pc, rct, ses, dec,
                 prd, lastPredict, preview, scheduler>>

\* -------------------------------------------------------- reward calculator
FOCUS_COIN_RATE == 30
MIN_FOCUS_TIME == 5
dailyGoal == 3
RecentDatesLimit == 30

Max(S) == CHOOSE x \in S : \A y \in S : y <= x

\* new Date(sessionDate).getDay(): 0 is Sunday, 6 is Saturday
getDay(d) == (d + 1) % 7

calculateFocusCoins_started(focusTimeMinutes) ==
  IF focusTimeMinutes < MIN_FOCUS_TIME THEN 0
  ELSE (focusTimeMinutes + FOCUS_COIN_RATE - 1) \div FOCUS_COIN_RATE

\* Math.floor(focusTimeMinutes / FOCUS_COIN_RATE) from MIN_FOCUS_TIME minutes on
calculateFocusCoins(focusTimeMinutes) ==
  IF focusTimeMinutes < MIN_FOCUS_TIME THEN 0 ELSE focusTimeMinutes \div FOCUS_COIN_RATE

\* ---- Math.floor(n * x) of JavaScript numbers, n an integer and x the double
\* nearest to the decimal c/100 (0 < c < 1000)
RECURSIVE Log2Floor(_)
Log2Floor(k) == IF k < 2 THEN 0 ELSE 1 + Log2Floor(k \div 2)

RECURSIVE Pow2(_)
Pow2(e) == IF e = 0 THEN 1 ELSE 2 * Pow2(e - 1)

RECURSIVE Pow2Mod100(_)
Pow2Mod100(e) == IF e = 0 THEN 1 ELSE (2 * Pow2Mod100(e - 1)) % 100

\* the least j with c * 2^j >= 100
RECURSIVE ShiftsToOne(_)
ShiftsToOne(c) == IF c >= 100 THEN 0 ELSE 1 + ShiftsToOne(2 * c)

\* the binary exponent of c/100: 2^e <= c/100 < 2^(e+1)
BinaryExponent(c) == IF c >= 100 THEN Log2Floor(c \div 100) ELSE 0 - ShiftsToOne(c)

\* the double nearest to c/100 is M / 2^p with p = 52 - BinaryExponent(c); its
\* error (M / 2^p - c/100), in units of 1 / (100 * 2^p)
DoubleError(c) ==
  LET r == (c * Pow2Mod100(52 - BinaryExponent(c))) % 100
  IN IF r < 50 THEN 0 - r ELSE 100 - r

\* Math.floor of the double product n * x: the exact product n * c / 100 is
\* rounded to the nearest double before the floor is taken, which loses one
\* when the exact product is an integer k and the rounded one lies below k
FloorOfProduct(n, c) ==
  LET k == (n * c) \div 100
      delta == DoubleError(c)
      isPow2 == k = Pow2(Log2Floor(k))
      \* half the distance from k down to the next double, as a power of two
      \* in the units of delta
      e2 == (Log2Floor(k) - 1) - BinaryExponent(c) - (IF isPow2 THEN 1 ELSE 0)
      below == IF e2 >= 0 THEN n * (0 - delta) > 100 * Pow2(e2)
                          ELSE n * (0 - delta) * Pow2(0 - e2) > 100
  IN IF n = 0 \/ c = 0 \/ (n * c) % 100 # 0 \/ delta >= 0 THEN k
     ELSE IF below THEN k - 1 ELSE k

\* Math.floor(resultQuantity * baseCoin * difficultyCoefficient), the
\* coefficient in hundredths
calculateResultCoins(resultQuantity, baseCoin, difficultyCoefficient) ==
  FloorOfProduct(resultQuantity * baseCoin, difficultyCoefficient)

Completed(S, u) == {s \in S : s.user_id = u /\ s.status = "completed"}

\* the user's distinct session dates, newest first, .limit(30)
RECURSIVE TopDates(_, _)
TopDates(D, n) ==
  IF D = {} \/ n = 0 THEN <<>> ELSE <<Max(D)>> \o TopDates(D \ {Max(D)}, n - 1)

RECURSIVE WalkDays(_, _, _, _)
WalkDays(rows, i, currentDate, consecutiveDays) ==
  IF i > Len(rows) THEN consecutiveDays
  ELSE IF rows[i] = currentDate - consecutiveDays
       THEN WalkDays(rows, i + 1, currentDate, consecutiveDays + 1)
       ELSE consecutiveDays

getConsecutiveLearningDays(S, u, currentDate) ==
  LET recentSessions == TopDates({s.session_date : s \in Completed(S, u)}, RecentDatesLimit)
  IN IF Len(recentSessions) = 0 THEN 1 ELSE WalkDays(recentSessions, 1, currentDate, 1)

calculateConsecutiveBonus(S, u, sessionDate) ==
  LET consecutiveDays == getConsecutiveLearningDays(S, u, sessionDate)
  IN IF consecutiveDays >= 7 THEN 10 ELSE IF consecutiveDays >= 3 THEN 5 ELSE 0

calculateFirstTimeBonus(S, u, t) ==
  IF \E s \in Completed(S, u) : s.task_id = t THEN 0 ELSE 5

calculateDifficultyBonus(label) ==
  IF label = "hard" THEN 3 ELSE IF label = "extreme" THEN 8 ELSE 0

calculateDailyGoalBonus(S, u, sessionDate) ==
  IF Cardinality({s \in Completed(S, u) : s.session_date = sessionDate}) >= dailyGoal
    THEN 15 ELSE 0

calculateWeekendBonus(sessionDate) ==
  IF getDay(sessionDate) = 0 \/ getDay(sessionDate) = 6 THEN 2 ELSE 0

\* the itemized bonuses of calculateBonusCoins
Bonuses(S, u, t, label, sessionDate) ==
  [consecutive |-> calculateConsecutiveBonus(S, u, sessionDate),
   first_time |-> calculateFirstTimeBonus(S, u, t),
   difficulty |-> calculateDifficultyBonus(label),
   daily_goal |-> calculateDailyGoalBonus(S, u, sessionDate),
   weekend |-> calculateWeekendBonus(sessionDate)]

NoBonuses == [consecutive |-> 0, first_time |-> 0, difficulty |-> 0, daily_goal |-> 0, weekend |-> 0]

calculateBonusCoins(S, u, t, label, sessionDate) ==
  calculateConsecutiveBonus(S, u, sessionDate) + calculateFirstTimeBonus(S, u, t)
    + calculateDifficultyBonus(label) + calculateDailyGoalBonus(S, u, sessionDate)
    + calculateWeekendBonus(sessionDate)

NoResult ==
  [ok |-> FALSE, focusCoins |-> 0, resultCoins |-> 0, bonusCoins |-> 0, totalCoins |-> 0,
   bonuses |-> NoBonuses]

\* the row lookups of calculateCoins: where({ task_id, is_active: true }) and
\* where({ difficulty_id, is_active: true })
activeTask(t) == t \in DOMAIN TaskDefinitions /\ TaskDefinitions[t].is_active

activeDifficulty_any(d) == d \in DOMAIN Difficulties

activeDifficulty(d) == d \in DOMAIN Difficulties /\ Difficulties[d].is_active

\* CoinCalculationEngine.calculateCoins(input) against the sessions S; ok is
\* FALSE when it throws 'Task not found or inactive' / 'Difficulty not found or inactive'
calculateCoins(S, u, t, d, focusTimeMinutes, resultQuantity, sessionDate) ==
  IF ~activeTask(t) THEN NoResult
  ELSE IF ~activeDifficulty(d) THEN NoResult
  ELSE LET focusCoins == calculateFocusCoins(focusTimeMinutes)
           resultCoins == calculateResultCoins(resultQuantity, TaskDefinitions[t].base_coin,
                                               Difficulties[d].coefficient)
           bonus == calculateBonusCoins(S, u, t, Difficulties[d].label, sessionDate)
       IN [ok |-> TRUE, focusCoins |-> focusCoins, resultCoins |-> resultCoins,
           bonusCoins |-> bonus, totalCoins |-> focusCoins + resultCoins + bonus,
           bonuses |-> Bonuses(S, u, t, Difficulties[d].label, sessionDate)]

\* private static isSchedulerRunning = false; node-cron keeps every task that
\* cron.schedule returned, the service keeps none of them
NoScheduler == [isSchedulerRunning |-> FALSE, daily |-> 0, hourly |-> 0]

\* CoinController.previewCalculation: calculateCoins for the request's input;
\* a 'not found' error becomes the response 400 'Invalid task or difficulty ID'
NoPreview ==
  [userId |-> 0, taskId |-> 0, difficultyId |-> 0, focusTimeMinutes |-> 0,
   resultQuantity |-> 0, sessionDate |-> 0, status |-> 0, calculation |-> NoResult]

PreviewCalculation(u, t, d, focusTimeMinutes, resultQuantity, sessionDate) ==
  /\ \A p \in Procs : pc[p] = "idle"
  /\ LET calculation == calculateCoins(sessions, u, t, d, focusTimeMinutes, resultQuantity,
                                       sessionDate)
     IN preview' = [userId |-> u, taskId |-> t, difficultyId |-> d,
                    focusTimeMinutes |-> focusTimeMinutes,
                    resultQuantity |-> resultQuantity, sessionDate |-> sessionDate,
                    status |-> IF calculation.ok THEN 200 ELSE 400,
                    calculation |-> calculation]
  /\ UNCHANGED <<users, lastLogin, ledger, sessions, nextSession, achieved, rules, today,
                 jumps, errorLog, pc, rct, ses, dec, prd, lastPredict, scheduler>>

\* ---------------------------------------------------- LearningSessionModel
NoSes ==
  [userId |-> 0, taskId |-> 0, difficultyId |-> 0, sessionDate |-> 0,
   focusTimeMinutes |-> 0, resultQuantity |-> 0, sessionId |-> 0]


restOfSession ==
  <<users, lastLogin, rules, today, jumps, errorLog, dec, prd, lastPredict, preview, scheduler>>

SessionRef(id) == <<"session", id>>

\* LearningSessionModel.create(sessionData): calculateCoins, then the insert of
\* the row with the totals of that first calculation
CreateSession(p, u, t, d, sessionDate, focusTimeMinutes, resultQuantity) ==
  /\ pc[p] = "idle"
  /\ u \in users
  /\ LET coinResult == calculateCoins(sessions, u, t, d, focusTimeMinutes,
                                      resultQuantity, sessionDate)
         sessionId == nextSession + 1
     IN IF ~coinResult.ok
          THEN UNCHANGED <<sessions, nextSession, pc, ses>>
          ELSE /\ nextSession' = sessionId
               /\ sessions' = sessions \cup
                    {[session_id |-> sessionId, user_id |-> u, task_id |-> t,
                      difficulty_id |-> d, session_date |-> sessionDate,
                      focus_time_minutes |-> focusTimeMinutes,
                      result_quantity |-> resultQuantity,
                      focus_coins |-> coinResult.focusCoins,
                      result_coins |-> coinResult.resultCoins,
                      total_coins |-> coinResult.totalCoins,
                      status |-> "completed", created_at |-> today]}
               /\ ses' = [ses EXCEPT ![p] =
                    [userId |-> u, taskId |-> t, difficultyId |-> d,
                     sessionDate |-> sessionDate, focusTimeMinutes |-> focusTimeMinutes,
                     resultQuantity |-> resultQuantity, sessionId |-> sessionId]]
               /\ pc' = [pc EXCEPT ![p] = "reward_earned"]
  /\ UNCHANGED <<ledger, achieved, rct, restOfSession>>

\* the coinResult of CoinService.processSessionReward: calculateCoins again,
\* now with the session row in the table
RewardResult(p) ==
  calculateCoins(sessions, ses[p].userId, ses[p].taskId, ses[p].difficultyId,
                 ses[p].focusTimeMinutes, ses[p].resultQuantity, ses[p].sessionDate)

\* the amount of the 'earned' entry: coinResult.totalCoins
EarnedAmount(coinResult) == coinResult.totalCoins

\* processSessionReward: if (coinResult.totalCoins > 0) record 'earned'
RewardEarned(p) ==
  /\ pc[p] = "reward_earned"
  /\ IF RewardResult(p).totalCoins > 0
       THEN CallRct(p, ses[p].userId, EarnedAmount(RewardResult(p)), "earned", "session",
                    SessionRef(ses[p].sessionId), NoRule, 0, "reward_bonus", "create_end")
       ELSE /\ pc' = [pc EXCEPT ![p] = "reward_bonus"]
            /\ rct' = rct
  /\ UNCHANGED <<ledger, sessions, nextSession, achieved, ses, restOfSession>>

\* processSessionReward: if (coinResult.bonusCoins && coinResult.bonusCoins > 0)
\* record 'bonus'
RewardBonus(p) ==
  /\ pc[p] = "reward_bonus"
  /\ IF RewardResult(p).bonusCoins > 0
       THEN CallRct(p, ses[p].userId, RewardResult(p).bonusCoins, "bonus", "session_bonus",
                    SessionRef(ses[p].sessionId), NoRule, 0, "create_achievements",
                    "create_end")
       ELSE /\ pc' = [pc EXCEPT ![p] = "create_achievements"]
            /\ rct' = rct
  /\ UNCHANGED <<ledger, sessions, nextSession, achieved, ses, restOfSession>>

\* create: AchievementService.checkAndAwardAchievements(user_id) inside try/catch;
\* an achievement not yet completed is awarded when its condition holds
CreateAchievements(p) ==
  /\ pc[p] = "create_achievements"
  /\ \E a \in DOMAIN Achievements :
       /\ <<ses[p].userId, a>> \notin achieved
       /\ Len(ledger) < MaxLedger
       /\ achieved' = achieved \cup {<<ses[p].userId, a>>}
       /\ IF Achievements[a].points > 0
            THEN CallRct(p, ses[p].userId, Achievements[a].points, "bonus", "achievement",
                         <<"achievement", a>>, NoRule, 0, "create_achievements", "create_end")
            ELSE UNCHANGED <<pc, rct>>
  /\ UNCHANGED <<ledger, sessions, nextSession, ses, restOfSession>>

\* create returns the session, or rejects after a failed reward
CreateEnd(p) ==
  /\ pc[p] \in {"create_achievements", "create_end"}
  /\ pc' = [pc EXCEPT ![p] = "idle"]
  /\ ses' = [ses EXCEPT ![p] = NoSes]
  /\ UNCHANGED <<ledger, sessions, nextSession, achieved, rct, restOfSession>>

\* LearningSessionModel.update(sessionId, updateData) with focus_time_minutes
\* and result_quantity given: the row's coins are recomputed without bonus
UpdateSession(sid, focusTime, resultQuantity) ==
  /\ \A p \in Procs : pc[p] = "idle"
  /\ \E s \in sessions :
       /\ s.session_id = sid
       /\ LET focusCoins == focusTime \div 30
              resultCoins == FloorOfProduct(
                               resultQuantity * TaskDefinitions[s.task_id].base_coin,
                               Difficulties[s.difficulty_id].coefficient)
          IN sessions' = (sessions \ {s}) \cup
               {[s EXCEPT !.focus_time_minutes = focusTime,
                          !.result_quantity = resultQuantity,
                          !.focus_coins = focusCoins, !.result_coins = resultCoins,
                          !.total_coins = focusCoins + resultCoins]}
       /\ sessions' # sessions
  /\ UNCHANGED <<ledger, nextSession, achieved, pc, rct, ses, restOfSession>>

DeleteSession_cascade(sid) ==
  /\ \A p \in Procs : pc[p] = "idle"
  /\ \E s \in sessions : s.session_id = sid /\ sessions' = sessions \ {s}
  /\ ledger' = SelectSeq(ledger, LAMBDA e : e.reference_id # SessionRef(sid))
  /\ UNCHANGED <<nextSession, achieved, pc, rct, ses, restOfSession>>

\* LearningSessionModel.delete(sessionId)
DeleteSession(sid) ==
  /\ \A p \in Procs : pc[p] = "idle"
  /\ \E s \in sessions : s.session_id = sid /\ sessions' = sessions \ {s}
  /\ UNCHANGED <<ledger, nextSession, achieved, pc, rct, ses, restOfSession>>

\* the clock moves on
AdvanceDays(n) ==
  /\ jumps < MaxJumps
  /\ jumps' = jumps + 1
  /\ today' = today + n
  /\ UNCHANGED <<users, lastLogin, ledger, sessions, nextSession, achieved, rules,
                 errorLog, pc, rct, ses, dec, prd, lastPredict, preview, scheduler>>

\* -------------------------------------------------------- CoinDecayService
ActiveWindowDays == 30
SessionWindowDays == 90
\* decay_rate, a decimal(5,4) column, is kept in hundredths: 20 is the percentage
\* rate 0.2, 900 the fixed rate 9; fixed rates are whole coins
RateScale == 100

Min(a, b) == IF a < b THEN a ELSE b

RuleIds == DOMAIN rules

NoDec ==
  [scope |-> "none", userId |-> 0, activeUsers |-> <<>>, ui |-> 0, decayRules |-> <<>>,
   userSessions |-> <<>>, ri |-> 0, si |-> 0, failed |-> {}, hourly |-> FALSE,
   manual |-> FALSE, mark |-> 0]

\* the orders in which a query without (a total) ORDER BY may return the rows S
Orders(S) ==
  {q \in [1..Cardinality(S) -> S] : \A i, j \in 1..Cardinality(S) : i # j => q[i] # q[j]}

\* getActiveUsers(): active users who logged in, or have a session created,
\* within the last 30 days
getActiveUsers ==
  {u \in users :
     \/ lastLogin[u] >= today - ActiveWindowDays
     \/ \E s \in sessions : s.user_id = u /\ s.created_at >= today - ActiveWindowDays}

getActiveDecayRules_unordered == Orders({r \in RuleIds : rules[r].is_active})

\* getActiveDecayRules(): .where('is_active', true).orderBy('priority', 'desc')
getActiveDecayRules ==
  {q \in Orders({r \in RuleIds : rules[r].is_active}) :
     \A i, j \in DOMAIN q : i < j => rules[q[i]].priority >= rules[q[j]].priority}

\* getUserSessionsForDecay(userId): completed sessions with coins of the last 90 days
getUserSessionsForDecay(u) ==
  {s \in sessions : /\ s.user_id = u
                    /\ s.status = "completed"
                    /\ s.total_coins > 0
                    /\ s.session_date >= today - SessionWindowDays}

\* filterSessionsByRule's predicate
MatchesRule(session, rule) ==
  IF rule.applies_to = "subject"
    THEN TaskDefinitions[session.task_id].subject = rule.scope_value
  ELSE IF rule.applies_to = "task_type"
    THEN TaskDefinitions[session.task_id].task_type = rule.scope_value
  ELSE TRUE

getDaysSince_nextDay(dateString) == today - dateString + 1

\* Math.floor((today - sessionDate) / (1000 * 60 * 60 * 24))
getDaysSince(dateString) == today - dateString

\* the next (rule, session) of processUserDecay's loops, from position (ri, si)
\* on, for which applyDecayToSession is called; <<0, 0>> when the loops end
RECURSIVE FindTriple(_, _, _, _)
FindTriple(rs, ss, ri, si) ==
  IF ri > Len(rs) THEN <<0, 0>>
  ELSE IF si > Len(ss) THEN FindTriple(rs, ss, ri + 1, 1)
  ELSE IF /\ MatchesRule(ss[si], rules[rs[ri]])
          /\ getDaysSince(ss[si].session_date) >= rules[rs[ri]].threshold_days
       THEN <<ri, si>>
       ELSE FindTriple(rs, ss, ri, si + 1)

\* the existingDecay query of applyDecayToSession and predictDecay
existingDecay(l, u, sessionId, ruleId) ==
  \E i \in 1..Len(l) : /\ l[i].user_id = u
                       /\ l[i].change_type = "decayed"
                       /\ l[i].reference_id = SessionRef(sessionId)
                       /\ l[i].rule_id = ruleId

existingDecay_never(l, u, sessionId, ruleId) == FALSE

\* whether applyDecayToSession returns early: if (existingDecay) return
AlreadyDecayed(l, u, sessionId, ruleId) == existingDecay(l, u, sessionId, ruleId)

DecayAmount_uncapped(total_coins, rule) ==
  IF rule.decay_type = "percentage"
    THEN (total_coins * rule.decay_rate) \div RateScale
    ELSE rule.decay_rate \div RateScale

\* decayAmount of applyDecayToSession, after Math.min(decayAmount, session.total_coins)
DecayAmount(total_coins, rule) ==
  Min(IF rule.decay_type = "percentage"
        THEN (total_coins * rule.decay_rate) \div RateScale
        ELSE rule.decay_rate \div RateScale,
      total_coins)

AfterUser_stop(d) ==
  [pc |-> "cycle_end", dec |-> [d EXCEPT !.userSessions = <<>>, !.ri = 0, !.si = 0]]

\* where the cycle goes once a user's loops are over (or were left by a throw)
AfterUser(d) ==
  IF d.scope = "all" /\ d.ui < Len(d.activeUsers)
    THEN [pc |-> "user_sessions",
          dec |-> [d EXCEPT !.ui = d.ui + 1, !.userSessions = <<>>, !.ri = 0, !.si = 0]]
    ELSE [pc |-> "cycle_end",
          dec |-> [d EXCEPT !.userSessions = <<>>, !.ri = 0, !.si = 0]]

\* where the cycle goes from position (ri, si): the next call of
\* applyDecayToSession, or the end of this user's loops
FromPosition(d, ri, si) ==
  LET nt == FindTriple(d.decayRules, d.userSessions, ri, si)
  IN IF nt # <<0, 0>>
       THEN [pc |-> "apply_exists", dec |-> [d EXCEPT !.ri = nt[1], !.si = nt[2]]]
       ELSE AfterUser(d)

Goto(p, to) == pc' = [pc EXCEPT ![p] = to.pc] /\ dec' = [dec EXCEPT ![p] = to.dec]

CurrentUser(d) == IF d.scope = "all" THEN d.activeUsers[d.ui] ELSE d.userId

restOfDecay ==
  <<users, lastLogin, sessions, nextSession, achieved, rules, today, jumps, ses, prd,
    lastPredict, preview, scheduler>>

\* executeDecayProcess(): const activeUsers = await this.getActiveUsers()
ExecuteDecayProcess(p) ==
  /\ pc[p] = "idle"
  /\ \E order \in Orders(getActiveUsers) :
       dec' = [dec EXCEPT ![p] = [NoDec EXCEPT !.scope = "all", !.activeUsers = order]]
  /\ pc' = [pc EXCEPT ![p] = "load_rules"]
  /\ errorLog' = {}
  /\ UNCHANGED <<ledger, rct, restOfDecay>>

\* shouldRunHourlyDecay(): an active rule with metadata.emergency = 'true' exists
shouldRunHourlyDecay == \E r \in RuleIds : rules[r].is_active /\ rules[r].emergency

\* the hourly job of startScheduler: executeDecayProcess() when
\* shouldRunHourlyDecay()
HourlyDecay(p) ==
  /\ pc[p] = "idle"
  /\ IF shouldRunHourlyDecay
       THEN /\ \E order \in Orders(getActiveUsers) :
                 dec' = [dec EXCEPT ![p] = [NoDec EXCEPT !.scope = "all",
                                                         !.activeUsers = order,
                                                         !.hourly = TRUE]]
            /\ pc' = [pc EXCEPT ![p] = "load_rules"]
            /\ errorLog' = {}
       ELSE UNCHANGED <<dec, pc, errorLog>>
  /\ UNCHANGED <<ledger, rct, restOfDecay>>

\* triggerDecay(userId) with a user id
TriggerDecay(p, u) ==
  /\ pc[p] = "idle"
  /\ dec' = [dec EXCEPT ![p] = [NoDec EXCEPT !.scope = "user", !.userId = u,
                                              !.manual = TRUE]]
  /\ pc' = [pc EXCEPT ![p] = "load_rules"]
  /\ errorLog' = {}
  /\ UNCHANGED <<ledger, rct, restOfDecay>>

\* triggerDecay() without a user id: await this.executeDecayProcess()
TriggerDecayAll(p) ==
  /\ pc[p] = "idle"
  /\ \E order \in Orders(getActiveUsers) :
       dec' = [dec EXCEPT ![p] = [NoDec EXCEPT !.scope = "all", !.activeUsers = order,
                                               !.manual = TRUE]]
  /\ pc' = [pc EXCEPT ![p] = "load_rules"]
  /\ errorLog' = {}
  /\ UNCHANGED <<ledger, rct, restOfDecay>>

\* const decayRules = await this.getActiveDecayRules()
LoadRules(p) ==
  /\ pc[p] = "load_rules"
  /\ \E order \in getActiveDecayRules :
       LET d == [dec[p] EXCEPT !.decayRules = order]
       IN IF d.scope = "all" /\ Len(d.activeUsers) = 0
            THEN Goto(p, [pc |-> "cycle_end", dec |-> d])
            ELSE Goto(p, [pc |-> "user_sessions", dec |-> [d EXCEPT !.ui = 1]])
  /\ UNCHANGED <<ledger, errorLog, rct, restOfDecay>>

\* processUserDecay: const userSessions = await this.getUserSessionsForDecay(userId),
\* then the loops up to the first call of applyDecayToSession; mark remembers
\* the length of the ledger when the user's processing began
LoadUserSessions(p) ==
  /\ pc[p] = "user_sessions"
  /\ \E order \in Orders(getUserSessionsForDecay(CurrentUser(dec[p]))) :
       Goto(p, FromPosition([dec[p] EXCEPT !.userSessions = order,
                                            !.mark = Len(ledger)], 1, 1))
  /\ UNCHANGED <<ledger, errorLog, rct, restOfDecay>>

\* applyDecayToSession: the existingDecay query, the amount, and the call of
\* recordCoinTransaction when the amount is positive
ApplyDecayToSession(p) ==
  /\ pc[p] = "apply_exists"
  /\ LET d == dec[p]
         u == CurrentUser(d)
         session == d.userSessions[d.si]
         ruleId == d.decayRules[d.ri]
         decayAmount == DecayAmount(session.total_coins, rules[ruleId])
     IN IF AlreadyDecayed(ledger, u, session.session_id, ruleId) \/ ~(decayAmount > 0)
          THEN Goto(p, FromPosition(d, d.ri, d.si + 1)) /\ rct' = rct
          ELSE /\ CallRct(p, u, 0 - decayAmount, "decayed", "session_decay",
                          SessionRef(session.session_id), ruleId, session.total_coins,
                          "apply_done", "decay_throw")
               /\ dec' = dec
  /\ UNCHANGED <<ledger, errorLog, restOfDecay>>

\* recordCoinTransaction returned: console.log, then on with the loops
ApplyDone(p) ==
  /\ pc[p] = "apply_done"
  /\ Goto(p, FromPosition(dec[p], dec[p].ri, dec[p].si + 1))
  /\ UNCHANGED <<ledger, errorLog, rct, restOfDecay>>

\* the existingDecay query fails
ApplyExistsFails(p) ==
  /\ pc[p] = "apply_exists"
  /\ pc' = [pc EXCEPT ![p] = "decay_throw"]
  /\ UNCHANGED <<ledger, errorLog, rct, dec, restOfDecay>>

\* an error thrown inside processUserDecay: executeDecayProcess catches it
\* around the whole user, logs and goes on with the next user; triggerDecay
\* with a user id has no catch and rejects
DecayThrow(p) ==
  /\ pc[p] = "decay_throw"
  /\ LET d == [dec[p] EXCEPT !.failed = @ \cup {<<CurrentUser(dec[p]),
                                                  dec[p].decayRules[dec[p].ri],
                                                  dec[p].userSessions[dec[p].si].session_id>>}]
     IN IF d.scope = "all"
          THEN /\ errorLog' = errorLog \cup {CurrentUser(d)}
               /\ Goto(p, AfterUser(d))
          ELSE /\ errorLog' = errorLog
               /\ Goto(p, [pc |-> "cycle_rejected", dec |-> d])
  /\ UNCHANGED <<ledger, rct, restOfDecay>>

\* the cycle's promise settles
CycleEnd(p) ==
  /\ pc[p] \in {"cycle_end", "cycle_rejected"}
  /\ pc' = [pc EXCEPT ![p] = "idle"]
  /\ dec' = [dec EXCEPT ![p] = NoDec]
  /\ UNCHANGED <<ledger, errorLog, rct, restOfDecay>>

\* predictDecay(userId, days)
NoPrd ==
  [userId |-> 0, days |-> 0, i |-> 0, decayRules |-> <<>>, userSessions |-> <<>>,
   predictions |-> <<>>, ledger |-> <<>>, today |-> 0]

restOfPredict ==
  <<users, lastLogin, ledger, sessions, nextSession, achieved, rules, today, jumps,
    errorLog, rct, ses, dec, preview, scheduler>>

futureDate_now(i) == today

\* futureDate.setDate(futureDate.getDate() + i), as a day number
futureDate(i) == today + i

Add_overwrite(predictedDecay, amount) == amount

\* predictedDecay += Math.min(decayAmount, session.total_coins)
Add(predictedDecay, amount) == predictedDecay + amount

\* the loops over the rules and their sessions of one future day i, from
\* position (ri, si) on, with the sums so far in acc
RECURSIVE PredictLoops(_, _, _, _, _, _, _, _)
PredictLoops(l, u, rs, ss, i, ri, si, acc) ==
  IF ri > Len(rs) THEN acc
  ELSE IF si > Len(ss) THEN PredictLoops(l, u, rs, ss, i, ri + 1, 1, acc)
  ELSE IF /\ MatchesRule(ss[si], rules[rs[ri]])
          /\ getDaysSince(ss[si].session_date) + i >= rules[rs[ri]].threshold_days
          /\ ~existingDecay(l, u, ss[si].session_id, rs[ri])
       THEN PredictLoops(l, u, rs, ss, i, ri, si + 1,
              [predictedDecay |->
                 Add(acc.predictedDecay, DecayAmount(ss[si].total_coins, rules[rs[ri]])),
               affectedSessions |-> acc.affectedSessions + 1])
       ELSE PredictLoops(l, u, rs, ss, i, ri, si + 1, acc)

\* const decayRules = await this.getActiveDecayRules()
PredictDecay(p, u, days) ==
  /\ \A q \in Procs : pc[q] = "idle"
  /\ \E order \in getActiveDecayRules :
       prd' = [prd EXCEPT ![p] = [NoPrd EXCEPT !.userId = u, !.days = days,
                                               !.decayRules = order]]
  /\ pc' = [pc EXCEPT ![p] = "predict_sessions"]
  /\ UNCHANGED <<lastPredict, restOfPredict>>

\* const userSessions = await this.getUserSessionsForDecay(userId)
PredictLoadSessions(p) ==
  /\ pc[p] = "predict_sessions"
  /\ \E order \in Orders(getUserSessionsForDecay(prd[p].userId)) :
       prd' = [prd EXCEPT ![p].userSessions = order, ![p].i = 1]
  /\ pc' = [pc EXCEPT ![p] = IF prd[p].days >= 1 THEN "predict_day" ELSE "predict_end"]
  /\ UNCHANGED <<lastPredict, restOfPredict>>

\* one turn of for (let i = 1; i <= days; i++), its hasDecayed queries included
PredictDay(p) ==
  /\ pc[p] = "predict_day"
  /\ LET f == prd[p]
         sums == PredictLoops(ledger, f.userId, f.decayRules, f.userSessions, f.i, 1, 1,
                              [predictedDecay |-> 0, affectedSessions |-> 0])
         entry == [date |-> futureDate(f.i), predictedDecay |-> sums.predictedDecay,
                   affectedSessions |-> sums.affectedSessions]
     IN /\ prd' = [prd EXCEPT ![p].predictions = Append(f.predictions, entry),
                              ![p].i = f.i + 1]
        /\ pc' = [pc EXCEPT ![p] = IF f.i + 1 <= f.days THEN "predict_day" ELSE "predict_end"]
  /\ UNCHANGED <<lastPredict, restOfPredict>>

\* return predictions
PredictEnd(p) ==
  /\ pc[p] = "predict_end"
  /\ lastPredict' = [prd[p] EXCEPT !.ledger = ledger, !.today = today]
  /\ prd' = [prd EXCEPT ![p] = NoPrd]
  /\ pc' = [pc EXCEPT ![p] = "idle"]
  /\ UNCHANGED restOfPredict

\* ---------------------------------------------------------- specifications
Init ==
  /\ users = Users
  /\ lastLogin = [u \in Users |-> 0]
  /\ ledger = <<>>
  /\ sessions = {}
  /\ nextSession = 0
  /\ achieved = {}
  /\ rules = <<>>
  /\ today = 0
  /\ jumps = 0
  /\ errorLog = {}
  /\ pc = [p \in Procs |-> "idle"]
  /\ rct = [p \in Procs |-> NoFrame]
  /\ ses = [p \in Procs |-> NoSes]
  /\ dec = [p \in Procs |-> NoDec]
  /\ prd = [p \in Procs |-> NoPrd]
  /\ lastPredict = NoPrd
  /\ preview = NoPreview
  /\ scheduler = NoScheduler

Callers(p) ==
  \/ \E u \in Users, amt \in AdjustAmounts : AdjustCoins(p, u, amt)
  \/ \E u \in Users, cost \in RewardCosts : RedeemReward(p, u, cost)
  \/ \E u \in Users, a \in DOMAIN Achievements : AwardAchievement(p, u, a)

\* concurrent requests, appends not serialised (the code as written)
NextConcurrent ==
  \/ \E p \in Procs : Callers(p)
  \/ \E p \in Procs : RctGetBalance(p)
  \/ \E p \in Procs : RctInsert(p)
  \/ \E u \in Users : DeleteUser(u)

SpecConcurrent == Init /\ [][NextConcurrent]_vars

\* concurrent redemptions of users who receive coins by achievements and
\* positive adjustments (no penalties)
NextRedeem ==
  \/ \E p \in Procs, u \in Users, a \in DOMAIN Achievements : AwardAchievement(p, u, a)
  \/ \E p \in Procs, u \in Users, amt \in {a \in AdjustAmounts : a > 0} :
       AdjustCoins(p, u, amt)
  \/ \E p \in Procs, u \in Users, cost \in RewardCosts : RedeemReward(p, u, cost)
  \/ \E p \in Procs : RctGetBalance(p)
  \/ \E p \in Procs : RctInsert(p)

SpecRedeem == Init /\ [][NextRedeem]_vars

\* concurrent requests whose appends are serialised per user
NextSingleWriter ==
  \/ \E p \in Procs : Callers(p)
  \/ \E p \in Procs : RctGetBalanceSerial(p)
  \/ \E p \in Procs : RctInsert(p)
  \/ \E u \in Users : DeleteUser(u)

SpecSingleWriter == Init /\ [][NextSingleWriter]_vars

\* the decay rules an administrator may have configured (the table has no
\* writer in the code): percentage and fixed rates, scoped and unscoped,
\* equal priorities, an inactive rule
RuleSets ==
  {<<[threshold_days |-> 1, decay_rate |-> 20, decay_type |-> "percentage",
      applies_to |-> "all", scope_value |-> "", is_active |-> TRUE, priority |-> 2,
      emergency |-> FALSE],
     [threshold_days |-> 2, decay_rate |-> 900, decay_type |-> "fixed",
      applies_to |-> "subject", scope_value |-> "math", is_active |-> TRUE, priority |-> 1,
      emergency |-> FALSE]>>,
   <<[threshold_days |-> 45, decay_rate |-> 300, decay_type |-> "fixed",
      applies_to |-> "all", scope_value |-> "", is_active |-> TRUE, priority |-> 1,
      emergency |-> TRUE],
     [threshold_days |-> 1, decay_rate |-> 150, decay_type |-> "percentage",
      applies_to |-> "task_type", scope_value |-> "practice", is_active |-> TRUE,
      priority |-> 1, emergency |-> FALSE]>>,
   <<[threshold_days |-> 1, decay_rate |-> 5, decay_type |-> "percentage",
      applies_to |-> "all", scope_value |-> "", is_active |-> TRUE, priority |-> 1,
      emergency |-> FALSE],
     [threshold_days |-> 0, decay_rate |-> 20, decay_type |-> "percentage",
      applies_to |-> "all", scope_value |-> "", is_active |-> FALSE, priority |-> 3,
      emergency |-> FALSE]>>}

InitRules ==
  /\ users = Users
  /\ lastLogin = [u \in Users |-> 0]
  /\ ledger = <<>>
  /\ sessions = {}
  /\ nextSession = 0
  /\ achieved = {}
  /\ rules \in RuleSets
  /\ today = 0
  /\ jumps = 0
  /\ errorLog = {}
  /\ pc = [p \in Procs |-> "idle"]
  /\ rct = [p \in Procs |-> NoFrame]
  /\ ses = [p \in Procs |-> NoSes]
  /\ dec = [p \in Procs |-> NoDec]
  /\ prd = [p \in Procs |-> NoPrd]
  /\ lastPredict = NoPrd
  /\ preview = NoPreview
  /\ scheduler = NoScheduler

\* the inputs of the requests
TaskIds == {1, 2}
DifficultyIds == {1}
FocusTimes == {65}
Quantities == {1}

\* one request at a time: every request runs to its end before the next starts;
\* sessions are created for the tasks of `tasks`
Requests(tasks) ==
  \/ \E u \in Users, t \in tasks, d \in DifficultyIds, f \in FocusTimes, q \in Quantities :
       /\ \A p \in Procs : pc[p] = "idle"
       /\ nextSession < MaxSessions
       /\ CreateSession(1, u, t, d, today, f, q)
  \/ RewardEarned(1)
  \/ RewardBonus(1)
  \/ CreateAchievements(1)
  \/ CreateEnd(1)
  \/ \E sid \in 1..MaxSessions, f \in {4}, q \in {0} : UpdateSession(sid, f, q)
  \/ \E sid \in 1..MaxSessions : DeleteSession(sid)
  \/ \E u \in Users, cost \in RewardCosts : RedeemReward(1, u, cost)
  \/ RctGetBalance(1)
  \/ RctInsert(1)
  \/ ExecuteDecayProcess(1)
  \/ \E u \in Users : TriggerDecay(1, u)
  \/ LoadRules(1)
  \/ LoadUserSessions(1)
  \/ ApplyDecayToSession(1)
  \/ ApplyDone(1)
  \/ CycleEnd(1)
  \/ \E u \in Users : (\A p \in Procs : pc[p] = "idle") /\ DeleteUser(u)
  \/ \E n \in DayJumps : (\A p \in Procs : pc[p] = "idle") /\ AdvanceDays(n)

Next == Requests(TaskIds)

Spec == InitRules /\ [][Next]_vars

\* the same requests and the administrator's adjustments, under one rule set
InitLedger == InitRules /\ rules[1].decay_rate = 20

NextLedger ==
  \/ Requests({1})
  \/ \E u \in Users, amt \in AdjustAmounts : AdjustCoins(1, u, amt)

SpecLedger == InitLedger /\ [][NextLedger]_vars

\* sessions and decay cycles over a store whose queries and inserts may fail
NextFaults ==
  \/ \E u \in Users, t \in TaskIds :
       /\ \A p \in Procs : pc[p] = "idle"
       /\ nextSession < MaxSessions
       /\ CreateSession(1, u, t, 1, today, 65, 1)
  \/ RewardEarned(1)
  \/ RewardBonus(1)
  \/ CreateEnd(1)
  \/ RctGetBalance(1)
  \/ RctInsert(1)
  \/ RctInsertFails(1)
  \/ ExecuteDecayProcess(1)
  \/ \E u \in Users : TriggerDecay(1, u)
  \/ TriggerDecayAll(1)
  \/ LoadRules(1)
  \/ LoadUserSessions(1)
  \/ ApplyDecayToSession(1)
  \/ ApplyDone(1)
  \/ ApplyExistsFails(1)
  \/ DecayThrow(1)
  \/ CycleEnd(1)
  \/ \E n \in DayJumps : (\A p \in Procs : pc[p] = "idle") /\ AdvanceDays(n)

SpecFaults == InitRules /\ [][NextFaults]_vars

\* sessions and the two scheduled jobs, the daily and the hourly one
NextScheduler ==
  \/ \E u \in Users, t \in TaskIds :
       /\ \A p \in Procs : pc[p] = "idle"
       /\ nextSession < MaxSessions
       /\ CreateSession(1, u, t, 1, today, 65, 1)
  \/ RewardEarned(1)
  \/ RewardBonus(1)
  \/ CreateEnd(1)
  \/ RctGetBalance(1)
  \/ RctInsert(1)
  \/ ExecuteDecayProcess(1)
  \/ HourlyDecay(1)
  \/ LoadRules(1)
  \/ LoadUserSessions(1)
  \/ ApplyDecayToSession(1)
  \/ ApplyDone(1)
  \/ CycleEnd(1)
  \/ \E n \in DayJumps : (\A p \in Procs : pc[p] = "idle") /\ AdvanceDays(n)

SpecScheduler == InitRules /\ [][NextScheduler]_vars

\* startScheduler: a no-op while the flag is set; otherwise cron.schedule
\* registers the daily and the hourly job and the flag is set
StartScheduler ==
  /\ scheduler' = IF scheduler.isSchedulerRunning
                    THEN scheduler
                    ELSE [isSchedulerRunning |-> TRUE, daily |-> scheduler.daily + 1,
                          hourly |-> scheduler.hourly + 1]
  /\ UNCHANGED <<users, lastLogin, ledger, sessions, nextSession, achieved, rules, today,
                 jumps, errorLog, pc, rct, ses, dec, prd, lastPredict, preview>>

\* stopScheduler: the flag is cleared, the registered jobs are left as they are
StopScheduler ==
  /\ scheduler' = [scheduler EXCEPT !.isSchedulerRunning = FALSE]
  /\ UNCHANGED <<users, lastLogin, ledger, sessions, nextSession, achieved, rules, today,
                 jumps, errorLog, pc, rct, ses, dec, prd, lastPredict, preview>>

\* the callback of the k-th registered '0 2 * * *' job: executeDecayProcess
DailyJob(k) ==
  /\ k <= scheduler.daily
  /\ ExecuteDecayProcess(k)

\* the callback of the k-th registered '0 * * * *' job
HourlyJob(k) ==
  /\ k <= scheduler.hourly
  /\ HourlyDecay(k)

\* the server's life: startScheduler at start-up, stopScheduler at shutdown,
\* sessions, and the jobs node-cron fires, one callback at a time
NextJobs ==
  \/ scheduler.daily < NumProcs /\ StartScheduler
  \/ StopScheduler
  \/ /\ \A p \in Procs : pc[p] = "idle"
     /\ nextSession < MaxSessions
     /\ CreateSession(1, 1, 1, 1, today, 65, 1)
  \/ RewardEarned(1)
  \/ RewardBonus(1)
  \/ CreateEnd(1)
  \/ \E k \in Procs : (\A p \in Procs : pc[p] = "idle") /\ DailyJob(k)
  \/ \E k \in Procs : (\A p \in Procs : pc[p] = "idle") /\ HourlyJob(k)
  \/ \E p \in Procs : RctGetBalance(p)
  \/ \E p \in Procs : RctInsert(p)
  \/ \E p \in Procs : LoadRules(p)
  \/ \E p \in Procs : LoadUserSessions(p)
  \/ \E p \in Procs : ApplyDecayToSession(p)
  \/ \E p \in Procs : ApplyDone(p)
  \/ \E p \in Procs : CycleEnd(p)
  \/ \E n \in DayJumps : (\A p \in Procs : pc[p] = "idle") /\ AdvanceDays(n)

SpecJobs == InitRules /\ [][NextJobs]_vars

\* the reward calculator as a function of its input, over an empty history
PreviewTasks == 0..4
PreviewDifficulties == 0..6
PreviewFocusTimes == {0, 4, 5, 29, 30, 65, 1440}
PreviewQuantities == {0, 1, 10, 100}

PreviewDates == {0, 5}

\* one request per behaviour: the calculation depends on nothing an earlier
\* preview leaves behind
NextPreview ==
  /\ preview = NoPreview
  /\ \E u \in Users, t \in PreviewTasks, d \in PreviewDifficulties, f \in PreviewFocusTimes,
        q \in PreviewQuantities, date \in PreviewDates :
       PreviewCalculation(u, t, d, f, q, date)

SpecPreview == InitRules /\ [][NextPreview]_vars

\* sessions of several days and tasks and previews of the next reward; day 0
\* is a Monday, so -2 and -1 are a Saturday and a Sunday
CalcDates == {-2, -1, 0}

InitCalc == InitRules /\ rules[1].decay_rate = 20

NextCalc ==
  \/ \E u \in Users, t \in TaskIds, date \in CalcDates :
       /\ \A p \in Procs : pc[p] = "idle"
       /\ nextSession < MaxCalcSessions
       /\ CreateSession(1, u, t, 1, date, 65, 1)
  \/ RewardEarned(1)
  \/ RewardBonus(1)
  \/ CreateEnd(1)
  \/ RctGetBalance(1)
  \/ RctInsert(1)
  \/ PreviewCalculation(1, 1, 1, 65, 1, 0)

SpecCalc == InitCalc /\ [][NextCalc]_vars

\* sessions of every focus time, created and updated
NextFocus ==
  \/ \E f \in PreviewFocusTimes :
       /\ \A p \in Procs : pc[p] = "idle"
       /\ nextSession < MaxSessions
       /\ CreateSession(1, 1, 1, 1, today, f, 1)
  \/ RewardEarned(1)
  \/ RewardBonus(1)
  \/ CreateEnd(1)
  \/ RctGetBalance(1)
  \/ RctInsert(1)
  \/ \E sid \in 1..MaxSessions, f \in PreviewFocusTimes : UpdateSession(sid, f, 1)

SpecFocus == InitCalc /\ [][NextFocus]_vars

\* users who earn by sessions, spend by redemptions and are decayed by the
\* daily cycle; no adjustment, update or deletion
NextSpend ==
  \/ \E u \in Users, t \in TaskIds :
       /\ \A p \in Procs : pc[p] = "idle"
       /\ nextSession < MaxSessions
       /\ CreateSession(1, u, t, 1, today, 65, 1)
  \/ RewardEarned(1)
  \/ RewardBonus(1)
  \/ CreateEnd(1)
  \/ \E u \in Users, cost \in RewardCosts : RedeemReward(1, u, cost)
  \/ RctGetBalance(1)
  \/ RctInsert(1)
  \/ ExecuteDecayProcess(1)
  \/ LoadRules(1)
  \/ LoadUserSessions(1)
  \/ ApplyDecayToSession(1)
  \/ ApplyDone(1)
  \/ CycleEnd(1)
  \/ \E n \in DayJumps : (\A p \in Procs : pc[p] = "idle") /\ AdvanceDays(n)

SpecSpend == InitRules /\ [][NextSpend]_vars

\* decay cycles that overlap: the daily job, the hourly job and a manual
\* trigger run as separate asynchronous calls over the same store
NextOverlap ==
  \/ \E u \in Users :
       /\ \A p \in Procs : pc[p] = "idle"
       /\ nextSession < MaxSessions
       /\ CreateSession(1, u, 1, 1, today, 65, 1)
  \/ RewardEarned(1)
  \/ RewardBonus(1)
  \/ CreateEnd(1)
  \/ ExecuteDecayProcess(1)
  \/ HourlyDecay(2)
  \/ \E u \in Users : TriggerDecay(2, u)
  \/ \E p \in Procs : LoadRules(p)
  \/ \E p \in Procs : LoadUserSessions(p)
  \/ \E p \in Procs : ApplyDecayToSession(p)
  \/ \E p \in Procs : RctGetBalance(p)
  \/ \E p \in Procs : RctInsert(p)
  \/ \E p \in Procs : ApplyDone(p)
  \/ \E p \in Procs : CycleEnd(p)
  \/ \E n \in DayJumps : (\A p \in Procs : pc[p] = "idle") /\ AdvanceDays(n)

\* under the rule set that holds an emergency rule, which lets the hourly job run
InitOverlap == InitRules /\ \E r \in DOMAIN rules : rules[r].emergency

SpecOverlap == InitOverlap /\ [][NextOverlap]_vars

\* the horizons asked of predictDecay
Horizons == {1, 3}

\* sessions, decay cycles and predictions, one request at a time
NextPredict ==
  \/ \E u \in Users, t \in TaskIds :
       /\ \A p \in Procs : pc[p] = "idle"
       /\ nextSession < MaxSessions
       /\ CreateSession(1, u, t, 1, today, 65, 1)
  \/ RewardEarned(1)
  \/ RewardBonus(1)
  \/ CreateEnd(1)
  \/ RctGetBalance(1)
  \/ RctInsert(1)
  \/ ExecuteDecayProcess(1)
  \/ LoadRules(1)
  \/ LoadUserSessions(1)
  \/ ApplyDecayToSession(1)
  \/ ApplyDone(1)
  \/ CycleEnd(1)
  \/ \E u \in Users, days \in Horizons : PredictDecay(1, u, days)
  \/ PredictLoadSessions(1)
  \/ PredictDay(1)
  \/ PredictEnd(1)
  \/ \E n \in DayJumps : (\A p \in Procs : pc[p] = "idle") /\ AdvanceDays(n)

SpecPredict == InitRules /\ [][NextPredict]_vars

\* ------------------------------------------------------------------ claims
RECURSIVE SumAmounts(_, _)
SumAmounts(es, n) == IF n = 0 THEN 0 ELSE SumAmounts(es, n - 1) + es[n].amount

\* C1: for every user, in every reachable state (appends of concurrent requests
\* interleaving), the sum of the user's entry amounts equals currentBalance(user)
\* and each entry's balance_after is the sum of the amounts up to and including it.
C1_NoDrift ==
  \A u \in Users :
    LET es == UserEntries(ledger, u)
    IN /\ SumAmounts(es, Len(es)) = getCurrentBalance(ledger, u)
       /\ \A i \in 1..Len(es) : es[i].balance_after = SumAmounts(es, i)

\* C2: with appends serialised per user, each user's entries in creation order
\* satisfy balance_after[i] = balance_after[i-1] + amount[i], starting from 0.
C2_BalanceTrail ==
  \A u \in Users :
    LET es == UserEntries(ledger, u)
    IN \A i \in 1..Len(es) :
         es[i].balance_after =
           (IF i = 1 THEN 0 ELSE es[i - 1].balance_after) + es[i].amount

\* two requests have appended to the same user's ledger, one of them a debit
C2_Witness ==
  \E u \in Users :
    LET es == UserEntries(ledger, u)
    IN /\ Len(es) >= 3
       /\ \E i \in 1..Len(es) : es[i].amount < 0
       /\ \E i \in 1..Len(es) : es[i].amount > 0 /\ i > 1

\* C7: an explicit debit (a redemption or a penalty) larger than the current
\* balance is rejected, so no debit entry ever leaves a negative balance.
C7_NoOverdraft ==
  \A i \in 1..Len(ledger) :
    (ledger[i].change_type \in {"redeemed", "penalty"} /\ ledger[i].amount < 0)
      => ledger[i].balance_after >= 0

\* the 'decayed' entries of the pair (session sid, rule r)
DecayedEntries(sid, r) ==
  {i \in 1..Len(ledger) : /\ ledger[i].change_type = "decayed"
                          /\ ledger[i].reference_id = SessionRef(sid)
                          /\ ledger[i].rule_id = r}

\* C3: after any number of decay cycles and manual triggers run one after
\* another, the ledger holds at most one 'decayed' entry per (session, rule)
\* pair; a pass over a pair that is already decayed writes nothing.
C3_DecayOnce ==
  \A sid \in 1..MaxSessions, r \in RuleIds : Cardinality(DecayedEntries(sid, r)) <= 1

\* a later cycle stands at a pair that already has its 'decayed' entry
C3_Witness ==
  /\ pc[1] = "apply_exists"
  /\ DecayedEntries(dec[1].userSessions[dec[1].si].session_id,
                    dec[1].decayRules[dec[1].ri]) # {}

SessionEntries(sid, kind) ==
  {i \in 1..Len(ledger) : /\ ledger[i].reference_id = SessionRef(sid)
                          /\ ledger[i].change_type = kind}

RECURSIVE SumOf(_)
SumOf(I) == IF I = {} THEN 0
            ELSE LET i == CHOOSE j \in I : TRUE IN ledger[i].amount + SumOf(I \ {i})

\* C8: once a session's reward has been recorded, the entries referencing the
\* session are one 'earned' entry of focus + result coins and, for a positive
\* bonus, one 'bonus' entry of the bonus, so that their sum is the total_coins
\* stored on the session.
C8_SessionCredit ==
  \A p \in Procs :
    pc[p] = "create_achievements" /\ rct[p] = NoFrame =>
      \A s \in sessions :
        s.session_id = ses[p].sessionId =>
          /\ \A i \in SessionEntries(s.session_id, "earned") :
               ledger[i].amount = s.focus_coins + s.result_coins
          /\ Cardinality(SessionEntries(s.session_id, "earned")) <= 1
          /\ Cardinality(SessionEntries(s.session_id, "bonus")) <= 1
          /\ SumOf(SessionEntries(s.session_id, "earned")
                   \cup SessionEntries(s.session_id, "bonus")) = s.total_coins

\* the (rule, session) pairs of user u that a cycle has to process
DuePairs(u) ==
  {<<r, s>> \in RuleIds \X getUserSessionsForDecay(u) :
     /\ rules[r].is_active
     /\ MatchesRule(s, rules[r])
     /\ today - s.session_date >= rules[r].threshold_days
     /\ DecayAmount(s.total_coins, rules[r]) > 0}

\* C6: when a cycle over all active users ends, every due (user, rule, session)
\* triple other than the ones whose processing failed has been processed - its
\* 'decayed' entry is in the ledger - whichever triples failed before it.
C6_FailureSkipsOneTriple ==
  (pc[1] = "cycle_end" /\ dec[1].scope = "all") =>
    \A ui \in 1..Len(dec[1].activeUsers) :
      LET u == dec[1].activeUsers[ui]
      IN \A rs \in DuePairs(u) :
           <<u, rs[1], rs[2].session_id>> \notin dec[1].failed
             => DecayedEntries(rs[2].session_id, rs[1]) # {}

\* C9: a predictDecay call that ends with the arguments, the user's sessions,
\* the ledger and the date of the call before it returns the list of
\* (date, predictedDecay, affectedSessions) that call returned.
C9_PredictDeterministic ==
  \A p \in Procs :
    (/\ pc[p] = "predict_end"
     /\ lastPredict.userId = prd[p].userId
     /\ lastPredict.days = prd[p].days
     /\ lastPredict.ledger = ledger
     /\ lastPredict.today = today
     /\ {lastPredict.userSessions[k] : k \in DOMAIN lastPredict.userSessions}
          = {prd[p].userSessions[k] : k \in DOMAIN prd[p].userSessions})
      => prd[p].predictions = lastPredict.predictions

\* the second of two equal calls read the user's two sessions in another order
\* and predicts a decay
C9_Witness ==
  /\ pc[1] = "predict_end"
  /\ lastPredict.userId = prd[1].userId
  /\ lastPredict.days = prd[1].days
  /\ lastPredict.ledger = ledger
  /\ lastPredict.today = today
  /\ Len(prd[1].userSessions) = 2
  /\ Len(lastPredict.userSessions) = 2
  /\ lastPredict.userSessions = <<prd[1].userSessions[2], prd[1].userSessions[1]>>
  /\ \E k \in DOMAIN prd[1].predictions : prd[1].predictions[k].predictedDecay > 0

PredictPcs == {"predict_sessions", "predict_day", "predict_end"}

\* C10: no step of a predictDecay call changes the ledger, the sessions or the
\* decay rules, and the call returns exactly `days` entries, the k-th of them
\* for the date k days ahead.
C10_PredictReadOnly ==
  [][\A p \in Procs :
       (pc[p] \in PredictPcs \/ pc'[p] \in PredictPcs) =>
         /\ ledger' = ledger /\ sessions' = sessions /\ rules' = rules
         /\ (pc[p] = "predict_end" /\ pc'[p] = "idle") =>
              /\ Len(lastPredict'.predictions) = lastPredict'.days
              /\ \A k \in 1..Len(lastPredict'.predictions) :
                   lastPredict'.predictions[k].date = today + k]_vars

\* a three-day prediction has returned with decays in the ledger and more to come
C10_Witness ==
  /\ lastPredict.days = 3
  /\ Len(lastPredict.predictions) = 3
  /\ \E i \in 1..Len(ledger) : ledger[i].change_type = "decayed"
  /\ lastPredict.predictions[1].predictedDecay < lastPredict.predictions[3].predictedDecay

\* the (rule, session) pairs of user u for which a cycle run k days from now
\* against the current ledger would write a 'decayed' entry
WouldDecay(u, k) ==
  {rs \in RuleIds \X sessions :
     /\ rules[rs[1]].is_active
     /\ rs[2].user_id = u
     /\ rs[2].status = "completed"
     /\ rs[2].total_coins > 0
     /\ rs[2].session_date >= (today + k) - 90
     /\ MatchesRule(rs[2], rules[rs[1]])
     /\ (today + k) - rs[2].session_date >= rules[rs[1]].threshold_days
     /\ DecayedEntries(rs[2].session_id, rs[1]) = {}
     /\ DecayAmount(rs[2].total_coins, rules[rs[1]]) > 0}

RECURSIVE SumDecay(_)
SumDecay(P) ==
  IF P = {} THEN 0
  ELSE LET rs == CHOOSE x \in P : TRUE
       IN DecayAmount(rs[2].total_coins, rules[rs[1]]) + SumDecay(P \ {rs})

\* C11: the k-th entry a predictDecay call returns carries the total magnitude
\* and the number of the 'decayed' entries a cycle for that user would write
\* if it ran k days from now against the current ledger.
C11_PredictSimulatesCycle ==
  \A p \in Procs :
    pc[p] = "predict_end" =>
      \A k \in 1..Len(prd[p].predictions) :
        /\ prd[p].predictions[k].affectedSessions
             = Cardinality(WouldDecay(prd[p].userId, k))
        /\ prd[p].predictions[k].predictedDecay = SumDecay(WouldDecay(prd[p].userId, k))

\* C12: a cycle started by the hourly job writes 'decayed' entries only for
\* rules whose metadata flags them as emergency.
C12_HourlyUrgentOnly ==
  \A p \in Procs :
    (pc[p] = "apply_done" /\ dec[p].hourly) => rules[dec[p].decayRules[dec[p].ri]].emergency

\* C13: when session creation is rejected because its reward could not be
\* recorded, neither the session row nor a ledger entry of that session is left.
C13_CreateAllOrNothing ==
  \A p \in Procs :
    pc[p] = "create_end" =>
      /\ \A s \in sessions : s.session_id # ses[p].sessionId
      /\ \A i \in 1..Len(ledger) : ledger[i].reference_id # SessionRef(ses[p].sessionId)

\* C14: previewing a calculation fails with the not-found response, returns no
\* result and writes nothing whenever the task or the difficulty is missing or
\* inactive, and succeeds only when both exist and are active.
C14_CalculateNotFound ==
  /\ preview # NoPreview =>
       LET found == /\ preview.taskId \in DOMAIN TaskDefinitions
                    /\ TaskDefinitions[preview.taskId].is_active
                    /\ preview.difficultyId \in DOMAIN Difficulties
                    /\ Difficulties[preview.difficultyId].is_active
       IN /\ found <=> preview.status = 200
          /\ ~found => preview.calculation = NoResult
  /\ ledger = <<>> /\ sessions = {}

\* an inactive task and an inactive difficulty have each been refused, and a
\* calculation of active ones was returned
C14_Witness ==
  /\ preview.status = 400
  /\ preview.taskId = 1 /\ preview.difficultyId = 5

\* the sum of the itemized bonus amounts of a calculation
SumBonuses(b) == b.consecutive + b.first_time + b.difficulty + b.daily_goal + b.weekend

\* C19: the result coins of a calculation are
\* floor(result_quantity * base_coin * coefficient), and the returned total is
\* focus coins + result coins + the sum of the itemized bonuses.
C19_ResultCoins ==
  preview.status = 200 =>
    LET c == preview.calculation
    IN /\ 100 * c.resultCoins <= preview.resultQuantity * TaskDefinitions[preview.taskId].base_coin
                                    * Difficulties[preview.difficultyId].coefficient
       /\ 100 * (c.resultCoins + 1) > preview.resultQuantity * TaskDefinitions[preview.taskId].base_coin
                                    * Difficulties[preview.difficultyId].coefficient
       /\ c.totalCoins = c.focusCoins + c.resultCoins + SumBonuses(c.bonuses)

\* the sessions created before s, and s among them
Before(s) == {x \in sessions : x.session_id < s.session_id}
UpTo(s) == {x \in sessions : x.session_id <= s.session_id}

\* create has finished recording the reward of s
Rewarded(s) == \A p \in Procs : ses[p].sessionId # s.session_id

\* the bonus stored in the total of s, and the amount of its 'bonus' entry
StoredBonus(s) == s.total_coins - s.focus_coins - s.result_coins
LedgerBonus(s) == SumOf(SessionEntries(s.session_id, "bonus"))

\* the bonuses of s other than the daily-goal one, as computed over the rows S
OtherThanDailyGoal(S, s) ==
  calculateConsecutiveBonus(S, s.user_id, s.session_date)
    + calculateFirstTimeBonus(S, s.user_id, s.task_id)
    + calculateDifficultyBonus(Difficulties[s.difficulty_id].label)
    + calculateWeekendBonus(s.session_date)

\* s is the n-th completed session of its user on its date
RankOnDate(s) ==
  Cardinality({x \in UpTo(s) : /\ x.user_id = s.user_id
                               /\ x.session_date = s.session_date
                               /\ x.status = "completed"})

\* C15: the reward of a session contains the daily-goal bonus of +15 exactly
\* when it is the 3rd-or-later completed session of its user on its date, both
\* in the total stored on the session and in the bonus recorded in the ledger.
C15_DailyGoalThirdSession ==
  \A s \in sessions :
    LET expected == IF RankOnDate(s) >= dailyGoal THEN 15 ELSE 0
    IN /\ StoredBonus(s) - OtherThanDailyGoal(Before(s), s) = expected
       /\ Rewarded(s) => LedgerBonus(s) - OtherThanDailyGoal(UpTo(s), s) = expected

\* the number of consecutive calendar days, ending at day d, on which user u has
\* a completed session
RECURSIVE DaysBack(_, _, _)
DaysBack(S, u, d) ==
  IF \E s \in S : s.user_id = u /\ s.status = "completed" /\ s.session_date = d
    THEN 1 + DaysBack(S, u, d - 1)
    ELSE 0

\* the streak ending at sessionDate, sessionDate itself counted
Streak(S, u, sessionDate) == 1 + DaysBack(S, u, sessionDate - 1)

\* C16: the streak bonus of a calculation is +10 for a streak of at least 7
\* days ending at session_date, +5 for at least 3 and 0 otherwise, whatever
\* sessions the user already has on session_date or later.
C16_StreakBonus ==
  [][(preview' # preview /\ preview'.status = 200) =>
       LET streak == Streak(sessions, preview'.userId, preview'.sessionDate)
       IN preview'.calculation.bonuses.consecutive =
            IF streak >= 7 THEN 10 ELSE IF streak >= 3 THEN 5 ELSE 0]_vars

\* the bonuses of s other than the first-attempt one, as computed over the rows S
OtherThanFirstTime(S, s) ==
  calculateConsecutiveBonus(S, s.user_id, s.session_date)
    + calculateDifficultyBonus(Difficulties[s.difficulty_id].label)
    + calculateDailyGoalBonus(S, s.user_id, s.session_date)
    + calculateWeekendBonus(s.session_date)

\* s is the first completed session of its user for its task
FirstOfTask(s) ==
  ~\E x \in Before(s) :
      x.user_id = s.user_id /\ x.task_id = s.task_id /\ x.status = "completed"

\* C17: the reward of a session contains the first-attempt bonus of +5 exactly
\* when the user has no earlier completed session of the same task, in the
\* stored total and in the bonus recorded in the ledger: once per (user, task).
C17_FirstAttemptOnce ==
  \A s \in sessions :
    LET expected == IF FirstOfTask(s) THEN 5 ELSE 0
    IN /\ StoredBonus(s) - OtherThanFirstTime(Before(s), s) = expected
       /\ Rewarded(s) => LedgerBonus(s) - OtherThanFirstTime(UpTo(s), s) = expected

\* C18: the focus coins stored on every session, at creation and after an
\* update, are floor(focus_minutes / 30) when focus_minutes >= 5 and 0
\* otherwise (4 -> 0, 30 -> 1, 65 -> 2).
C18_FocusCoins ==
  \A s \in sessions :
    /\ s.focus_time_minutes \in 0..1440
    /\ s.focus_time_minutes < 5 => s.focus_coins = 0
    /\ s.focus_time_minutes >= 5 =>
         /\ 30 * s.focus_coins <= s.focus_time_minutes
         /\ s.focus_time_minutes < 30 * (s.focus_coins + 1)

\* session 1 was created with 65 minutes (its 'earned' entry holds 2 focus and
\* 2 result coins) and updated to 4 minutes, session 2 holds 30 minutes
C18_Witness ==
  /\ Len(ledger) >= 1 /\ ledger[1].reference_id = SessionRef(1) /\ ledger[1].amount = 4
  /\ \E s \in sessions :
       s.session_id = 1 /\ s.focus_time_minutes = 4 /\ s.focus_coins = 0
  /\ \E s \in sessions :
       s.session_id = 2 /\ s.focus_time_minutes = 30 /\ s.focus_coins = 1

\* the positions of the ledger entries of user u, in order of creation
EntriesOf(u) == {i \in 1..Len(ledger) : ledger[i].user_id = u}

C21_ManualTriggerRejects ==
  \A p \in Procs :
    (dec[p].manual /\ dec[p].failed # {} /\ pc[p] \in {"cycle_end", "cycle_rejected"})
      => pc[p] = "cycle_rejected"

\* the user a request in progress acts for: the session's user, the user of a
\* user-scoped trigger, the user a cycle is processing, or the user an
\* adjustment or a redemption was called with
Actor(p) ==
  IF ses[p].userId # 0 THEN ses[p].userId
  ELSE IF dec[p].scope = "user" THEN dec[p].userId
  ELSE IF dec[p].scope = "all" THEN CurrentUser(dec[p])
  ELSE rct[p].userId

\* C22: the append of a session reward, a redemption, an adjustment or a decay
\* for one user leaves the ledger entries and the current balance of every
\* other user as they were.
C22_LedgersIndependent ==
  [][\A p \in Procs :
       (pc[p] = "rct_insert" /\ pc'[p] # "rct_insert") =>
         \A b \in Users \ {Actor(p)} :
           /\ UserEntries(ledger', b) = UserEntries(ledger, b)
           /\ getCurrentBalance(ledger', b) = getCurrentBalance(ledger, b)]_vars

\* a user-scoped trigger for user 1 has appended a 'decayed' entry after an
\* entry of user 2, whose balance differs from user 1's
C22_Witness ==
  /\ pc[1] = "apply_done" /\ dec[1].scope = "user" /\ dec[1].userId = 1
  /\ ledger[Len(ledger)].user_id = 1 /\ ledger[Len(ledger)].change_type = "decayed"
  /\ UserEntries(ledger, 2) # <<>>
  /\ getCurrentBalance(ledger, 2) # getCurrentBalance(ledger, 1)

\* C23: a 'decayed' entry is written only for an eligible (session, rule)
\* pair: the rule is active, the session is a completed session of the entry's
\* user with total_coins > 0, it matches the rule's scope and its age in days
\* is at least the rule's threshold_days.
C23_DecayOnlyEligible ==
  [][\A p \in Procs :
       (/\ pc[p] = "rct_insert" /\ rct[p].changeType = "decayed"
        /\ Len(ledger') = Len(ledger) + 1) =>
         LET e == ledger'[Len(ledger')]
         IN /\ e.change_type = "decayed"
            /\ e.rule_id \in RuleIds
            /\ rules[e.rule_id].is_active
            /\ \E s \in sessions :
                 /\ SessionRef(s.session_id) = e.reference_id
                 /\ s.user_id = e.user_id
                 /\ s.status = "completed"
                 /\ s.total_coins > 0
                 /\ \/ rules[e.rule_id].applies_to = "all"
                    \/ /\ rules[e.rule_id].applies_to = "subject"
                       /\ TaskDefinitions[s.task_id].subject = rules[e.rule_id].scope_value
                    \/ /\ rules[e.rule_id].applies_to = "task_type"
                       /\ TaskDefinitions[s.task_id].task_type = rules[e.rule_id].scope_value
                 /\ today - s.session_date >= rules[e.rule_id].threshold_days]_vars

\* a rule scoped to a subject has decayed a session of that subject
C23_Witness ==
  /\ pc[1] = "apply_done"
  /\ ledger[Len(ledger)].change_type = "decayed"
  /\ rules[ledger[Len(ledger)].rule_id].applies_to = "subject"
  /\ rules[ledger[Len(ledger)].rule_id].threshold_days > 1

\* C24: when a cycle over all users ends without a failed store operation,
\* every eligible pair is decayed: for every recently active user, every active
\* rule and every completed session of the user in the recent window that
\* matches the rule, is past its threshold and has a decay amount > 0, the
\* ledger holds exactly one 'decayed' entry of the (session, rule) pair.
C24_CycleDecaysEveryEligiblePair ==
  \A p \in Procs :
    (pc[p] = "cycle_end" /\ dec[p].scope = "all" /\ dec[p].failed = {}) =>
      \A u \in getActiveUsers :
        \A rs \in DuePairs(u) :
          Cardinality(DecayedEntries(rs[2].session_id, rs[1])) = 1

\* a cycle has ended with decayed sessions of both users
C24_Witness ==
  /\ pc[1] = "cycle_end" /\ dec[1].scope = "all"
  /\ \A u \in Users :
       /\ DuePairs(u) # {}
       /\ \E i \in 1..Len(ledger) : ledger[i].user_id = u /\ ledger[i].change_type = "decayed"

\* the positions of the 'decayed' entries appended for the user that the cycle
\* of p is processing, since that processing began
CycleEntries(p) ==
  {i \in (dec[p].mark + 1)..Len(ledger) :
     ledger[i].change_type = "decayed" /\ ledger[i].user_id = CurrentUser(dec[p])}

\* C25: within one user's processing in a cycle, a 'decayed' entry of a
\* higher-priority rule is appended before every 'decayed' entry of a
\* lower-priority rule.
C25_PriorityOrder ==
  \A p \in Procs :
    pc[p] \in {"apply_exists", "apply_done"} =>
      \A i, j \in CycleEntries(p) :
        i < j => rules[ledger[i].rule_id].priority >= rules[ledger[j].rule_id].priority

\* one session has been decayed under two rules of different priorities in
\* the same processing
C25_Witness ==
  /\ pc[1] = "apply_done"
  /\ \E i, j \in CycleEntries(1) :
       /\ i < j
       /\ ledger[i].reference_id = ledger[j].reference_id
       /\ rules[ledger[i].rule_id].priority > rules[ledger[j].rule_id].priority

\* C26: decay cycles that overlap in time write at most one 'decayed' entry
\* per (session, rule) pair.
C26_OverlapDecayOnce ==
  \A i, j \in 1..Len(ledger) :
    (/\ i < j
     /\ ledger[i].change_type = "decayed" /\ ledger[j].change_type = "decayed"
     /\ ledger[i].reference_id = ledger[j].reference_id)
      => ledger[i].rule_id # ledger[j].rule_id

\* C27: concurrent redemptions of one user never spend more than the user has:
\* no interleaving leaves the current balance of a user below 0.
C27_ConcurrentRedemptions ==
  \A u \in Users : getCurrentBalance(ledger, u) >= 0

\* C28: session rewards, successful redemptions and decay cycles keep every
\* balance_after they write, and so the current balance, at 0 or above.
C28_RewardAndDecayNonNegative ==
  \A i \in 1..Len(ledger) :
    ledger[i].change_type \in {"earned", "bonus", "redeemed", "decayed"}
      => ledger[i].balance_after >= 0

\* C29: for every session, the magnitudes of all 'decayed' entries that
\* reference it, over all rules and cycles, add up to at most its total_coins.
C29_TotalDecayWithinSession ==
  \A s \in sessions :
    0 - SumOf(SessionEntries(s.session_id, "decayed")) <= s.total_coins

\* C30: while the scheduler is running exactly one daily and one hourly job
\* are registered, whether startScheduler was repeated or followed a stop, and
\* no scheduled decay cycle starts while the scheduler is stopped
C30_SchedulerJobs ==
  [][/\ scheduler'.isSchedulerRunning => scheduler'.daily = 1 /\ scheduler'.hourly = 1
     /\ \A p \in Procs :
          (pc[p] = "idle" /\ pc'[p] = "load_rules") => scheduler.isSchedulerRunning]_vars

IsPrefix(a, b) == Len(a) <= Len(b) /\ SubSeq(b, 1, Len(a)) = a

====
